---- MODULE Spec2Model ----
(***************************************************************************)
(* A model of app.py, the Streamlit "AI-Generated Image Detector".         *)
(*                                                                         *)
(* The process state is the st.cache_resource entry of load_trained_model  *)
(* and the file_uploader widget; every user action reruns the script from  *)
(* top to bottom, which is one action of the model.  The pure functions    *)
(* preprocess_image and predict_image_class are operators; UnitSpec calls  *)
(* them directly on arguments drawn from bounded sets.                     *)
(*                                                                         *)
(* Numbers.  A probability is an integer k in 0..Unit standing for the     *)
(* float k/Unit; Unit = 2*Half, so the threshold 0.5 is Half exactly and   *)
(* 1 - p is Unit - p.  A normalized pixel value is the pair <<n, d>>       *)
(* standing for n/d.                                                       *)
(***************************************************************************)
EXTENDS Integers, Sequences, FiniteSets, TLC

VARIABLES
    cache,         \* st.cache_resource entry of load_trained_model(MODEL_PATH)
    loadAttempts,  \* how many times tf.keras.models.load_model has been called
    uploaded,      \* value of the sidebar file_uploader widget
    screen,        \* the st.* elements the last script run rendered, in order
    forward,       \* the last script run invoked trained_model.predict
    request,       \* the classify request of the last script run, or None
    escaped,       \* an exception left the last script run uncaught
    probe,         \* one earlier classify request, remembered for comparison
                   \* (fresh while it is the request of the last run)
    call           \* UnitSpec: the last direct call of a function

vars == <<cache, loadAttempts, uploaded, screen, forward, request, escaped, probe, call>>

\* Python's None, and the state of a cache that holds no entry yet.
None == [none |-> TRUE]
Empty == [empty |-> TRUE]

\* ---------------------------------------------------------------- numbers

\* Resolution of the probability grid: p ranges over 0..2*Half, in units of 1/(2*Half).
Half == 3
Unit == 2 * Half

\* ---------------------------------------------------------- configuration

IMG_WIDTH == 224
IMG_HEIGHT == 224
PREDICTION_THRESHOLD == Half

\* "Authentic (Real) Image"
LabelAuthentic ==
    <<"A","u","t","h","e","n","t","i","c"," ","(","R","e","a","l",")"," ","I","m","a","g","e">>
\* "AI-Generated Image"
LabelAI ==
    <<"A","I","-","G","e","n","e","r","a","t","e","d"," ","I","m","a","g","e">>
\* "Error"
LabelError == <<"E","r","r","o","r">>
\* "Error during prediction"
LabelErrorDuring ==
    <<"E","r","r","o","r"," ","d","u","r","i","n","g"," ","p","r","e","d","i","c","t","i","o","n">>

CLASS_LABELS == [i \in {0, 1} |-> IF i = 0 THEN LabelAuthentic ELSE LabelAI]

\* Python's `needle in hay` on strings.
Contains(needle, hay) ==
    \E i \in 0..(Len(hay) - Len(needle)) :
        SubSeq(hay, i + 1, i + Len(needle)) = needle

\* ------------------------------------------------------------------ images

Modes == {"RGB", "RGBA", "CMYK", "L"}
Bands(mode) == IF mode = "L" THEN 1 ELSE IF mode = "RGB" THEN 3 ELSE 4

\* Sample 8-bit pixels, one value per band.
Pixels(mode) ==
    IF mode = "L" THEN {<<0>>, <<255>>}
    ELSE IF mode = "RGB" THEN {<<0, 128, 255>>, <<255, 255, 255>>}
    ELSE {<<0, 128, 255, 64>>, <<255, 255, 255, 0>>}

\* Sizes <<width, height>> of uploaded images.
Sizes == {<<640, 480>>, <<100, 300>>}

\* A decoded PIL image of one colour; resizeOk says whether resize succeeds on it.
Images ==
    UNION {{[mode |-> m, size |-> s, pixel |-> p, resizeOk |-> r] :
                s \in Sizes, p \in Pixels(m), r \in BOOLEAN} : m \in Modes}

\* What the file_uploader can hold: a file Image.open/st.image reject, or an image.
CorruptFile == [decodes |-> FALSE, image |-> None]
Files == {CorruptFile} \cup {[decodes |-> TRUE, image |-> i] : i \in Images}

\* ------------------------------------------------------------- classifier

\* The artifacts load_model may return: classifier c is the function Forward(_, c).
Classifiers == 0..(Unit + 1)
Models == {[classifier |-> c] : c \in Classifiers}

Checksum(data) ==
    IF Len(data) = 0 THEN 0
    ELSE data[1][1] + (IF Len(data) > 1 THEN data[Len(data)][1] ELSE 0)

\* trained_model.predict(image_batch)[0][0]: a probability in 0..Unit, fixed by the
\* classifier and the tensor, or an exception (a tensor of the wrong shape always
\* raises).
Forward(image_batch, trained_model) ==
    IF image_batch.shape # <<1, IMG_HEIGHT, IMG_WIDTH, 3>> THEN [raised |-> TRUE]
    ELSE LET k == (trained_model.classifier + Checksum(image_batch.data)) % (Unit + 2)
         IN  IF k = Unit + 1 THEN [raised |-> TRUE] ELSE [raised |-> FALSE, p |-> k]

\* ---------------------------------------------------------- model loading

\* What tf.keras.models.load_model(MODEL_PATH) can do: raise, or return a model.
LoadOutcomes == {[ok |-> FALSE]} \cup {[ok |-> TRUE, model |-> m] : m \in Models}

Say(kind, text) == [kind |-> kind, text |-> text]

\* load_trained_model: the value returned and the st.error elements rendered.
load_trained_model(outcome) ==
    IF outcome.ok
    THEN [value |-> outcome.model, shown |-> <<>>]
    ELSE [value |-> None,
          shown |-> << Say("error", "Error loading model"),
                       Say("error", "Please ensure the path is a valid Keras model file"),
                       Say("error", "If you haven't trained a model yet, this app won't work") >>]

\* Variant: the decorator is missing, every script run loads again.
CachedLoad_NoCache(entry, outcome) ==
    [entry |-> load_trained_model(outcome), called |-> TRUE]

\* @st.cache_resource: the function runs when the cache holds no entry; its return
\* value (None included) and the elements it rendered are stored, and a later call
\* returns the entry and replays the elements without running the function.
CachedLoad(entry, outcome) ==
    IF entry = Empty
    THEN [entry |-> load_trained_model(outcome), called |-> TRUE]
    ELSE [entry |-> entry, called |-> FALSE]

\* ----------------------------------------------------------- preprocessing

\* image_pil.resize((IMG_WIDTH, IMG_HEIGHT)): same mode and colour, the new size.
Resize(image, size) == [image EXCEPT !.size = size]

\* image.convert('RGB') of an RGBA image: the alpha band is dropped.
ConvertRGB(image) == [image EXCEPT !.mode = "RGB", !.pixel = SubSeq(image.pixel, 1, 3)]

\* np.array(image): shape (height, width) for one band, (height, width, bands) else.
NpArray(image) ==
    [shape |-> IF Bands(image.mode) = 1
               THEN <<image.size[2], image.size[1]>>
               ELSE <<image.size[2], image.size[1], Bands(image.mode)>>,
     data  |-> image.pixel]

\* image_array / 255.0
Divide(array, d) == [array EXCEPT !.data = [i \in 1..Len(array.data) |-> <<array.data[i], d>>]]

\* np.expand_dims(image_array, axis=0)
ExpandDims(array) == [array EXCEPT !.shape = <<1>> \o array.shape]

\* The try block of preprocess_image: a batch, or an exception.
PreprocessBody(image_pil) ==
    IF ~image_pil.resizeOk THEN [raised |-> TRUE]
    ELSE LET image_resized == Resize(image_pil, <<IMG_WIDTH, IMG_HEIGHT>>)
             image_rgb == IF image_resized.mode = "RGBA"
                          THEN ConvertRGB(image_resized) ELSE image_resized
             image_array == Divide(NpArray(image_rgb), 255)
         IN  [raised |-> FALSE, value |-> ExpandDims(image_array)]

\* Variant: no try/except, a failing resize propagates.
preprocess_image_NoTry(image_pil) ==
    LET r == PreprocessBody(image_pil)
    IN  IF r.raised
        THEN [value |-> None, raised |-> TRUE, shown |-> <<>>]
        ELSE [value |-> r.value, raised |-> FALSE, shown |-> <<>>]

preprocess_image(image_pil) ==
    LET r == PreprocessBody(image_pil)
    IN  IF r.raised
        THEN [value |-> None, raised |-> FALSE,
              shown |-> <<Say("error", "Error preprocessing image")>>]
        ELSE [value |-> r.value, raised |-> FALSE, shown |-> <<>>]

\* -------------------------------------------------------------- prediction

\* Variant: the threshold is exclusive (>).
PredictBody_Exclusive(image_batch, trained_model) ==
    LET predictions == Forward(image_batch, trained_model)
    IN  IF predictions.raised THEN [raised |-> TRUE]
        ELSE LET confidence_ai == predictions.p
             IN  [raised |-> FALSE,
                  label |-> CLASS_LABELS[IF confidence_ai > PREDICTION_THRESHOLD
                                         THEN 1 ELSE 0],
                  confidence |-> IF confidence_ai > PREDICTION_THRESHOLD
                                 THEN confidence_ai ELSE Unit - confidence_ai]

\* Variant: the raw probability is reported for both labels.
PredictBody_RawConfidence(image_batch, trained_model) ==
    LET predictions == Forward(image_batch, trained_model)
    IN  IF predictions.raised THEN [raised |-> TRUE]
        ELSE [raised |-> FALSE,
              label |-> CLASS_LABELS[IF predictions.p >= PREDICTION_THRESHOLD
                                     THEN 1 ELSE 0],
              confidence |-> predictions.p]

\* The try block of predict_image_class: (label, confidence), or an exception.
PredictBody(image_batch, trained_model) ==
    LET predictions == Forward(image_batch, trained_model)
    IN  IF predictions.raised THEN [raised |-> TRUE]
        ELSE LET confidence_ai == predictions.p
                 predicted_class_index ==
                     IF confidence_ai >= PREDICTION_THRESHOLD THEN 1 ELSE 0
                 final_confidence ==
                     IF confidence_ai >= PREDICTION_THRESHOLD
                     THEN confidence_ai ELSE Unit - confidence_ai
             IN  [raised |-> FALSE,
                  label |-> CLASS_LABELS[predicted_class_index],
                  confidence |-> final_confidence]

\* Variant: the None guard is missing; an absent argument falls into the try block,
\* where predict is attempted and the failure is reported by the except clause.
predict_image_class_NoGuard(image_batch, trained_model) ==
    IF trained_model = None \/ image_batch = None
    THEN [label |-> LabelErrorDuring, confidence |-> 0,
          forward |-> (trained_model # None), raised |-> FALSE,
          shown |-> <<Say("error", "Error during prediction")>>]
    ELSE LET r == PredictBody(image_batch, trained_model)
         IN  IF r.raised
             THEN [label |-> LabelErrorDuring, confidence |-> 0, forward |-> TRUE,
                   raised |-> FALSE,
                   shown |-> <<Say("error", "Error during prediction")>>]
             ELSE [label |-> r.label, confidence |-> r.confidence, forward |-> TRUE,
                   raised |-> FALSE, shown |-> <<>>]

\* Variant: no try/except around the forward pass.
predict_image_class_NoExcept(image_batch, trained_model) ==
    IF trained_model = None \/ image_batch = None
    THEN [label |-> LabelError, confidence |-> 0, forward |-> FALSE,
          raised |-> FALSE, shown |-> <<>>]
    ELSE LET r == PredictBody(image_batch, trained_model)
         IN  IF r.raised
             THEN [label |-> LabelErrorDuring, confidence |-> 0, forward |-> TRUE,
                   raised |-> TRUE, shown |-> <<>>]
             ELSE [label |-> r.label, confidence |-> r.confidence, forward |-> TRUE,
                   raised |-> FALSE, shown |-> <<>>]

\* predict_image_class: what it returns, whether predict was invoked, whether an
\* exception left it, and the st.error elements it rendered.
predict_image_class(image_batch, trained_model) ==
    IF trained_model = None \/ image_batch = None
    THEN [label |-> LabelError, confidence |-> 0, forward |-> FALSE,
          raised |-> FALSE, shown |-> <<>>]
    ELSE LET r == PredictBody(image_batch, trained_model)
         IN  IF r.raised
             THEN [label |-> LabelErrorDuring, confidence |-> 0, forward |-> TRUE,
                   raised |-> FALSE,
                   shown |-> <<Say("error", "Error during prediction")>>]
             ELSE [label |-> r.label, confidence |-> r.confidence, forward |-> TRUE,
                   raised |-> FALSE, shown |-> <<>>]

\* ------------------------------------------------------ presentation shell

\* f"{confidence:.2%}": the percentage in hundredths of a percent, rounded to the
\* nearest (ties to even).
FormatPercent(confidence) ==
    LET n == confidence * 10000
        q == n \div Unit
        r == n % Unit
    IN  IF 2 * r > Unit \/ (2 * r = Unit /\ q % 2 = 1) THEN q + 1 ELSE q

\* with col1: the elements rendered, and uploaded_file and image as they leave it.
UploadedImageColumn(file) ==
    IF file # None
    THEN IF file.decodes
         THEN [uploaded_file |-> file, image |-> file.image,
               shown |-> << Say("subheader", "Uploaded Image"),
                            Say("image", "Uploaded Image.") >>]
         ELSE [uploaded_file |-> None, image |-> None,
               shown |-> << Say("subheader", "Uploaded Image"),
                            Say("error", "Error displaying image") >>]
    ELSE [uploaded_file |-> None, image |-> None,
          shown |-> << Say("subheader", "Uploaded Image"),
                       Say("info", "Please upload an image using the sidebar.") >>]

ClassifyButton == Say("button", "Classify Image")

\* Variant: the label is not tested for "Error", every result is shown as a verdict.
RenderResult_NoErrorTest(predicted_label, confidence) ==
    << IF predicted_label = CLASS_LABELS[1]
       THEN [kind |-> "error", text |-> "Prediction", label |-> predicted_label]
       ELSE [kind |-> "success", text |-> "Prediction", label |-> predicted_label],
       [kind |-> "write", text |-> "Confidence",
        percent |-> FormatPercent(confidence)] >>

\* Lines 132-143: how a (label, confidence) is rendered.
RenderResult(predicted_label, confidence) ==
    IF ~Contains(LabelError, predicted_label)
    THEN << IF predicted_label = CLASS_LABELS[1]
            THEN [kind |-> "error", text |-> "Prediction", label |-> predicted_label]
            ELSE [kind |-> "success", text |-> "Prediction", label |-> predicted_label],
            [kind |-> "write", text |-> "Confidence",
             percent |-> FormatPercent(confidence)] >>
    ELSE << Say("warning", "Could not make a prediction due to an error.") >>

NoRequest(shown) ==
    [shown |-> shown, forward |-> FALSE, escaped |-> FALSE, request |-> None]

After(before, c) == [c EXCEPT !.shown = before \o c.shown]

\* Lines 130-143: predict_image_class has returned res (or raised).
Predicted(image, pre, res) ==
    IF res.raised
    THEN [shown |-> pre.shown \o res.shown, forward |-> res.forward,
          escaped |-> TRUE,
          request |-> [image |-> image, batch |-> pre.value, result |-> None]]
    ELSE [shown |-> pre.shown \o res.shown \o RenderResult(res.label, res.confidence),
          forward |-> res.forward, escaped |-> FALSE,
          request |-> [image |-> image, batch |-> pre.value,
                       result |-> [label |-> res.label,
                                   confidence |-> res.confidence]]]

\* Lines 128-143: preprocess_image has returned pre (or raised).  An exception
\* leaving a function ends the script run where it is.
Preprocessed(image, model, pre) ==
    IF pre.raised \/ pre.value = None
    THEN [shown |-> pre.shown, forward |-> FALSE, escaped |-> pre.raised,
          request |-> [image |-> image, batch |-> None, result |-> None]]
    ELSE Predicted(image, pre, predict_image_class(pre.value, model))

\* Lines 124-143: the body of the classify button, one classify request.
ClassifyRequest(image, model) ==
    Preprocessed(image, model, preprocess_image(image))

\* Variant: the outer condition tests the upload only.
PredictionResultsColumn_NoModelTest(uploaded_file, image, model, click) ==
    After(<<Say("subheader", "Prediction Results")>>,
        IF uploaded_file # None
        THEN After(<<ClassifyButton>>,
                 IF click
                 THEN ClassifyRequest(image, model)
                 ELSE IF model = None
                 THEN NoRequest(<<Say("warning",
                          "Model not loaded. Please check the MODEL_PATH")>>)
                 ELSE NoRequest(<<Say("info", "Click the 'Classify Image' button")>>))
        ELSE NoRequest(<<Say("info", "Upload an image and click 'Classify Image'")>>))

\* with col2: click is what st.sidebar.button returns when the run evaluates it.
PredictionResultsColumn(uploaded_file, image, model, click) ==
    After(<<Say("subheader", "Prediction Results")>>,
        IF uploaded_file # None /\ model # None
        THEN After(<<ClassifyButton>>,
                 IF click
                 THEN ClassifyRequest(image, model)
                 ELSE IF model = None
                 THEN NoRequest(<<Say("warning",
                          "Model not loaded. Please check the MODEL_PATH")>>)
                 ELSE NoRequest(<<Say("info", "Click the 'Classify Image' button")>>))
        ELSE IF model = None /\ uploaded_file # None
        THEN NoRequest(<<Say("error", "Model could not be loaded.")>>)
        ELSE NoRequest(<<Say("info", "Upload an image and click 'Classify Image'")>>))

\* Lines 108-153 with the model in hand: col1, then col2.
Columns(model, col1, click) ==
    After(col1.shown,
          PredictionResultsColumn(col1.uploaded_file, col1.image, model, click))

\* Variant: a request that ends without a class label drops the cached model.
Script_DropModelOnError(loaded, file, click) ==
    LET page == After(loaded.entry.shown,
                      Columns(loaded.entry.value, UploadedImageColumn(file), click))
    IN  [cache |-> IF page.request # None /\ page.request.batch # None
                      /\ page.request.result.confidence = 0
                   THEN Empty ELSE loaded.entry,
         called |-> loaded.called, page |-> page]

\* Line 29 onwards: loaded is what the cached load_trained_model call gave.
Script(loaded, file, click) ==
    [cache |-> loaded.entry, called |-> loaded.called,
     page |-> After(loaded.entry.shown,
                    Columns(loaded.entry.value, UploadedImageColumn(file), click))]

\* One run of the script, top to bottom, with the widget holding file and the
\* button reporting click; outcome is what load_model would do if it were called.
RunScript(entry, file, click, outcome) ==
    Script(CachedLoad(entry, outcome), file, click)

Run(file, click, outcome) ==
    LET r == RunScript(cache, file, click, outcome)
    IN  /\ cache' = r.cache
        /\ loadAttempts' = loadAttempts + (IF r.called THEN 1 ELSE 0)
        /\ uploaded' = file
        /\ screen' = r.page.shown
        /\ forward' = r.page.forward
        /\ request' = r.page.request
        /\ escaped' = r.page.escaped
        /\ probe' \in (IF probe = None
                       THEN {None} \cup (IF r.page.request = None THEN {}
                             ELSE {[request |-> r.page.request, fresh |-> TRUE]})
                       ELSE {[probe EXCEPT !.fresh = FALSE]})
        /\ UNCHANGED call

Rendered(element) == \E i \in 1..Len(screen) : screen[i] = element

\* What load_model would do in the coming run.  It is called only while the cache
\* holds no entry; once it does, the choice is read by nothing and is fixed.
LoadChoices == IF cache = Empty THEN LoadOutcomes ELSE {[ok |-> FALSE]}

\* The page is opened or refreshed, or any widget other than those below changes.
Rerun ==
    \E outcome \in LoadChoices : Run(uploaded, FALSE, outcome)

\* The user picks a file in the sidebar uploader.
Upload ==
    /\ screen # <<>>
    /\ \E file \in Files, outcome \in LoadChoices : Run(file, FALSE, outcome)

\* The user removes the uploaded file.
RemoveUpload ==
    /\ screen # <<>>
    /\ uploaded # None
    /\ \E outcome \in LoadChoices : Run(None, FALSE, outcome)

\* The user clicks the classify button, which the last run rendered.
ClickClassify ==
    /\ Rendered(ClassifyButton)
    /\ \E outcome \in LoadChoices : Run(uploaded, TRUE, outcome)

NoCall == [fn |-> "none"]

Init ==
    /\ cache = Empty
    /\ loadAttempts = 0
    /\ uploaded = None
    /\ screen = <<>>
    /\ forward = FALSE
    /\ request = None
    /\ escaped = FALSE
    /\ probe = None
    /\ call = NoCall

Next == Rerun \/ Upload \/ RemoveUpload \/ ClickClassify

Spec == Init /\ [][Next]_vars

\* ------------------------------------------------- the functions on their own

\* The batches preprocess_image can hand over, and None.
Batches == {preprocess_image(i).value : i \in Images}

Shell == <<cache, loadAttempts, uploaded, screen, forward, request, escaped, probe>>

CallPreprocess ==
    /\ \E image \in Images :
           call' = [fn |-> "preprocess_image", image |-> image,
                    out |-> preprocess_image(image)]
    /\ UNCHANGED Shell

CallPredict ==
    /\ \E image_batch \in Batches, trained_model \in Models \cup {None} :
           call' = [fn |-> "predict_image_class", image_batch |-> image_batch,
                    trained_model |-> trained_model,
                    out |-> predict_image_class(image_batch, trained_model)]
    /\ UNCHANGED Shell

\* The strings predict_image_class can return.
Labels == {LabelAuthentic, LabelAI, LabelError, LabelErrorDuring}

CallRender ==
    /\ \E predicted_label \in Labels, confidence \in 0..Unit :
           call' = [fn |-> "render", predicted_label |-> predicted_label,
                    confidence |-> confidence,
                    out |-> RenderResult(predicted_label, confidence)]
    /\ UNCHANGED Shell

UnitNext == CallPreprocess \/ CallPredict \/ CallRender

UnitSpec == Init /\ [][UnitNext]_vars

\* ------------------------------------------------------------------ claims

LoadFailed == cache # Empty /\ cache.value = None
ModelLoaded == cache # Empty /\ cache.value # None
HasImage == uploaded # None /\ uploaded.decodes
Shown(text) == \E i \in 1..Len(screen) : screen[i].text = text
VerdictShown == Shown("Prediction")
ConfidenceShown == Shown("Confidence")
ClassLabels == {CLASS_LABELS[0], CLASS_LABELS[1]}
CouldNotPredict == Say("warning", "Could not make a prediction due to an error.")
CouldNotBeLoaded == Say("error", "Model could not be loaded.")
ModelNotLoaded == Say("warning", "Model not loaded. Please check the MODEL_PATH")
ClickHint == Say("info", "Click the 'Classify Image' button")
UploadHint == Say("info", "Upload an image and click 'Classify Image'")
LoadError == Say("error", "Error loading model")
PredictCalled == call.fn = "predict_image_class"
PredictArgsPresent ==
    PredictCalled /\ call.trained_model # None /\ call.image_batch # None

C2_AbsentArgument ==
    (PredictCalled /\ (call.trained_model = None \/ call.image_batch = None)) =>
        /\ call.out.label = LabelError
        /\ call.out.confidence = 0
        /\ ~call.out.forward
        /\ ~call.out.raised

C2_TensorAbsentOnly ==
    /\ PredictCalled
    /\ call.trained_model # None
    /\ call.image_batch = None
    /\ call.out.label = LabelError

\* C3: once loading the classifier has failed, no later script run loads again, none
\* invokes the forward pass or shows a verdict, every run with a file in the uploader
\* shows the loader's error (replayed from the cache entry), and every run whose
\* upload opened as an image shows the model-could-not-be-loaded error as well.
C3_LoadFailureIsFinal ==
    /\ [](LoadFailed =>
            /\ ~forward
            /\ ~VerdictShown
            /\ ~ConfidenceShown
            /\ uploaded # None => Rendered(LoadError)
            /\ HasImage => Rendered(CouldNotBeLoaded))
    /\ [][LoadFailed => (cache' = cache /\ loadAttempts' = loadAttempts)]_vars

C3_FailedThenUploaded ==
    /\ LoadFailed
    /\ loadAttempts = 1
    /\ HasImage
    /\ Rendered(CouldNotBeLoaded)

\* C4: when the uploaded file does not decode, or resizing/normalizing the image
\* fails, the failure is caught where it happens (preprocess_image returns None),
\* the run invokes no forward pass, shows no verdict and no confidence, and no
\* exception leaves the script.
C4_PreprocessingFailure ==
    /\ (request # None /\ ~request.image.resizeOk) =>
            /\ request.batch = None
            /\ request.result = None
            /\ ~forward
            /\ ~VerdictShown
            /\ ~ConfidenceShown
            /\ ~escaped
            /\ Rendered(Say("error", "Error preprocessing image"))
    /\ (screen # <<>> /\ uploaded # None /\ ~uploaded.decodes) =>
            /\ request = None
            /\ ~forward
            /\ ~VerdictShown
            /\ ~ConfidenceShown
            /\ ~escaped

C4_ResizeFailedOnClick ==
    /\ request # None
    /\ ~request.image.resizeOk
    /\ ModelLoaded
    /\ Rendered(ClassifyButton)

\* C5: when the forward pass raises, predict_image_class returns an error label with
\* confidence 0.0, the exception does not leave the script, and the shell shows the
\* could-not-predict warning and no verdict.
C5_InferenceFailure ==
    (ModelLoaded /\ request # None /\ request.batch # None
        /\ Forward(request.batch, cache.value).raised) =>
        /\ forward
        /\ ~escaped
        /\ request.result # None
        /\ Contains(LabelError, request.result.label)
        /\ request.result.confidence = 0
        /\ Rendered(CouldNotPredict)
        /\ ~VerdictShown
        /\ ~ConfidenceShown

C5_ForwardRaisedOnRGB ==
    /\ ModelLoaded
    /\ request # None
    /\ request.batch # None
    /\ request.batch.shape = <<1, IMG_HEIGHT, IMG_WIDTH, 3>>
    /\ Forward(request.batch, cache.value).raised
    /\ Rendered(CouldNotPredict)

InUnitInterval(v) == 0 <= v[1] /\ v[1] <= v[2] /\ v[2] > 0

\* C6: for every image of 3 or 4 channels on which resizing succeeds,
\* preprocess_image returns a tensor of shape (1, H, W, 3) whose values are the 8-bit
\* values over 255, each in [0, 1].
C6_ShapeAndRange ==
    (call.fn = "preprocess_image" /\ Bands(call.image.mode) \in {3, 4}
        /\ call.image.resizeOk) =>
        /\ call.out.value # None
        /\ call.out.value.shape = <<1, IMG_HEIGHT, IMG_WIDTH, 3>>
        /\ Len(call.out.value.data) = 3
        /\ \A i \in 1..Len(call.out.value.data) :
               /\ InUnitInterval(call.out.value.data[i])
               /\ call.out.value.data[i] = <<call.image.pixel[i], 255>>

C8_VerdictRendering ==
    /\ VerdictShown <=>
           (request # None /\ request.result # None
               /\ request.result.label \in ClassLabels)
    /\ VerdictShown <=> ConfidenceShown
    /\ (request # None /\ request.result # None) =>
           /\ request.result.label = LabelAI =>
                  /\ Rendered([kind |-> "error", text |-> "Prediction", label |-> LabelAI])
                  /\ ~Rendered(CouldNotPredict)
           /\ request.result.label = LabelAuthentic =>
                  /\ Rendered([kind |-> "success", text |-> "Prediction",
                               label |-> LabelAuthentic])
                  /\ ~Rendered(CouldNotPredict)
           /\ request.result.label \notin ClassLabels => Rendered(CouldNotPredict)
    /\ \A m \in {None, [classifier |-> 0]} :
           LET absent == predict_image_class(None, m)
           IN  RenderResult(absent.label, absent.confidence) = <<CouldNotPredict>>

C8_AIVerdictShown ==
    /\ request # None
    /\ request.result # None
    /\ request.result.label = LabelAI
    /\ Rendered([kind |-> "error", text |-> "Prediction", label |-> LabelAI])
    /\ ConfidenceShown

\* C9: a class label comes with a confidence in [0.5, 1], confidence 0.0 comes only
\* with an error label, and a confidence on screen is never below 50%.
C9_ConfidenceRange ==
    /\ (request # None /\ request.result # None) =>
           /\ request.result.label \in ClassLabels =>
                  /\ 2 * request.result.confidence >= Unit
                  /\ request.result.confidence <= Unit
           /\ request.result.confidence = 0 => request.result.label \notin ClassLabels
    /\ \A i \in 1..Len(screen) :
           screen[i].text = "Confidence" =>
               /\ screen[i].percent >= 5000
               /\ screen[i].percent <= 10000
               /\ screen[i].percent = FormatPercent(request.result.confidence)

C9_AuthenticCertain ==
    /\ request # None
    /\ request.result # None
    /\ request.result.label = LabelAuthentic
    /\ request.result.confidence = Unit
    /\ Rendered([kind |-> "write", text |-> "Confidence", percent |-> 10000])

\* C10: the "Model not loaded" warning is never rendered; a run whose upload opened
\* as an image shows the model-could-not-be-loaded error when there is no model and
\* the click-to-classify hint when there is a model and no click; a run whose upload
\* failed to open shows the upload hint in either case.
C10_DeadBranch ==
    /\ ~Rendered(ModelNotLoaded)
    /\ (LoadFailed /\ HasImage) =>
           Rendered(CouldNotBeLoaded) /\ ~Rendered(ClassifyButton)
    /\ (ModelLoaded /\ HasImage /\ request = None) => Rendered(ClickHint)
    /\ (screen # <<>> /\ uploaded # None /\ ~uploaded.decodes) =>
           /\ Rendered(UploadHint)
           /\ ~Rendered(CouldNotBeLoaded)
           /\ ~Rendered(ClickHint)

C10_ElifEvaluated ==
    /\ ModelLoaded
    /\ HasImage
    /\ request = None
    /\ Rendered(ClassifyButton)
    /\ Rendered(ClickHint)

\* C10 as stated: the "Model not loaded" warning is never rendered; whenever the
\* uploader holds a file and the model is absent the model-could-not-be-loaded error
\* is shown, and whenever it holds a file, the model is loaded and the button was
\* not clicked, the click-to-classify hint is shown.
C10_AsStated ==
    /\ ~Rendered(ModelNotLoaded)
    /\ (LoadFailed /\ uploaded # None) => Rendered(CouldNotBeLoaded)
    /\ (ModelLoaded /\ uploaded # None /\ request = None) => Rendered(ClickHint)

====
